---- MODULE Spec2Model ----
(***************************************************************************)
(* Model of src/main.py: the /recommend handler                            *)
(* get_recommendation_from_gemini (prompt construction, one call of the    *)
(* model, marker extraction with re.search / re.sub, reconciliation of the *)
(* extracted identifiers with the candidates and previous_candidate_ids).  *)
(*                                                                         *)
(* A text is a sequence of one-character strings; the keyword              *)
(* RECOMENDACION_IDS is one symbol (KW).  An Optional value is a tuple:    *)
(* <<>> is None and <<v>> is the value v.                                  *)
(***************************************************************************)
EXTENDS Integers, Sequences, FiniteSets

VARIABLES request, pc, reply, prompt, status, responseText, recommendation_ids, calls

vars == <<request, pc, reply, prompt, status, responseText, recommendation_ids, calls>>

----------------------------------------------------------------------------
(* Optional values *)

None == <<>>

Some(v) == <<v>>

\* Python truthiness of an Optional[list]: None and [] are false
TruthyList(o) == o # None /\ o[1] # <<>>

\* Python truthiness of an Optional[str]: None and "" are false
TruthyStr(o) == o # None /\ o[1] # ""

\* Python truthiness of an Optional[bool]
TruthyBool(o) == o # None /\ o[1]

----------------------------------------------------------------------------
(* Characters *)

KW == "RECOMENDACION_IDS"

\* a character for which str.isdigit() is True and int() raises ValueError
\* (superscript two, U+00B2)
SuperTwo == "sup2"

DecimalChars == {"1", "2", "3"}

DigitValue(ch) == CASE ch = "1" -> 1 [] ch = "2" -> 2 [] ch = "3" -> 3

\* \s of the patterns and the characters str.strip() removes
IsSpace(ch) == ch = " "

\* str.isdigit() of one character
CharIsDigit(ch) == ch \in DecimalChars \cup {SuperTwo}

----------------------------------------------------------------------------
(* str.strip() *)

RECURSIVE SkipSpace(_, _)
\* least index >= i of t that holds no whitespace (Len(t)+1 when none)
SkipSpace(t, i) ==
  IF i > Len(t) THEN i
  ELSE IF IsSpace(t[i]) THEN SkipSpace(t, i + 1) ELSE i

RECURSIVE SkipSpaceBack(_, _)
\* greatest index <= i of t that holds no whitespace (0 when none)
SkipSpaceBack(t, i) ==
  IF i < 1 THEN 0
  ELSE IF IsSpace(t[i]) THEN SkipSpaceBack(t, i - 1) ELSE i

Strip(t) == SubSeq(t, SkipSpace(t, 1), SkipSpaceBack(t, Len(t)))

----------------------------------------------------------------------------
\* re.search: "[" keyword ":" whitespace run, payload without "]", then "]"

RECURSIVE FindClose(_, _)
\* index of the first "]" at or after j, 0 when there is none
FindClose(t, j) ==
  IF j > Len(t) THEN 0
  ELSE IF t[j] = "]" THEN j ELSE FindClose(t, j + 1)

\* the literal prefix \[RECOMENDACION_IDS: at index i
OpensAt(t, i) ==
  /\ i >= 1
  /\ i + 2 <= Len(t)
  /\ t[i] = "["
  /\ t[i + 1] = KW
  /\ t[i + 2] = ":"

\* index of the closing bracket of the match that starts at i, 0 = no match
MatchEnd(t, i) == IF OpensAt(t, i) THEN FindClose(t, i + 3) ELSE 0

RECURSIVE SearchFrom(_, _)
SearchFrom(t, i) ==
  IF i > Len(t) THEN 0
  ELSE IF MatchEnd(t, i) > 0 THEN i ELSE SearchFrom(t, i + 1)

RECURSIVE SearchBackFrom(_, _)
SearchBackFrom(t, i) ==
  IF i < 1 THEN 0
  ELSE IF MatchEnd(t, i) > 0 THEN i ELSE SearchBackFrom(t, i - 1)

\* variant: the last match instead of the first
re_search_Last(t) == SearchBackFrom(t, Len(t))

\* start of the first match, 0 = None
re_search(t) == SearchFrom(t, 1)

\* ids_match.group(1): the payload after the greedy \s*
Group1(t, i) == SubSeq(t, SkipSpace(t, i + 3), MatchEnd(t, i) - 1)

----------------------------------------------------------------------------
\* re.sub: every match, with the whitespace runs on both sides, becomes ''

RECURSIVE SubFrom(_, _)
SubFrom(t, p) ==
  IF p > Len(t) THEN <<>>
  ELSE LET q == SkipSpace(t, p)
           e == MatchEnd(t, q)
       IN IF e > 0
          THEN SubFrom(t, SkipSpace(t, e + 1))
          ELSE <<t[p]>> \o SubFrom(t, p + 1)

RECURSIVE SubMarkerOnlyFrom(_, _)
SubMarkerOnlyFrom(t, p) ==
  IF p > Len(t) THEN <<>>
  ELSE IF MatchEnd(t, p) > 0
       THEN SubMarkerOnlyFrom(t, MatchEnd(t, p) + 1)
       ELSE <<t[p]>> \o SubMarkerOnlyFrom(t, p + 1)

\* variant: the pattern without the \s* on either side
re_sub_MarkerOnly(t) == SubMarkerOnlyFrom(t, 1)

re_sub(t) == SubFrom(t, 1)

\* variant: the text is cleaned and trimmed whether or not a marker matched
CleanText_Always(t, matched) == Strip(re_sub(t))

\* lines 113-118: the text shown to the user
CleanText(t, matched) == IF matched THEN Strip(re_sub(t)) ELSE t

----------------------------------------------------------------------------
(* lines 113-116: the identifiers of the payload *)

RECURSIVE SplitFrom(_, _, _)
SplitFrom(s, i, cur) ==
  IF i > Len(s) THEN <<cur>>
  ELSE IF s[i] = "," THEN <<cur>> \o SplitFrom(s, i + 1, <<>>)
       ELSE SplitFrom(s, i + 1, Append(cur, s[i]))

\* ids_str.split(',')
Split(s) == SplitFrom(s, 1, <<>>)

\* str.isdigit(): at least one character and every character a digit
IsDigit(tok) == tok # <<>> /\ \A i \in 1..Len(tok) : CharIsDigit(tok[i])

\* int(tok) raises ValueError
IntRaises(tok) == \E i \in 1..Len(tok) : tok[i] \notin DecimalChars

RECURSIVE IntOf(_)
\* int(tok) of a decimal token
IntOf(tok) ==
  IF tok = <<>> THEN 0
  ELSE 10 * IntOf(SubSeq(tok, 1, Len(tok) - 1)) + DigitValue(tok[Len(tok)])

\* the filter of the comprehension of line 116
KeepToken(tok) == IsDigit(Strip(tok))

\* [int(id.strip()) for id in ids_str.split(',') if id.strip().isdigit()]
ParseIds(ids_str) ==
  LET kept == SelectSeq(Split(ids_str), KeepToken)
      bad  == \E i \in 1..Len(kept) : IntRaises(Strip(kept[i]))
  IN [raised |-> bad,
      ids    |-> IF bad THEN <<>>
                 ELSE [i \in 1..Len(kept) |-> IntOf(Strip(kept[i]))]]

\* lines 111-116: recommendation_ids before the reconciliation
ExtractIds(text) ==
  LET m == re_search(text)
  IN IF m > 0 /\ Group1(text, m) # <<>>
     THEN ParseIds(Group1(text, m))
     ELSE [raised |-> FALSE, ids |-> <<>>]

----------------------------------------------------------------------------
(* lines 120-133: reconciliation *)

FallbackText == <<"No hay restaurantes que cumplan todas las condiciones. Quieres ver resultados que solo cumplan la ultima condicion?">>

\* line 121
ValidCandidateIds(req) ==
  IF TruthyList(req.candidates)
  THEN [i \in 1..Len(req.candidates[1]) |-> req.candidates[1][i].id]
  ELSE <<>>

InSeq(x, sq) == \E i \in 1..Len(sq) : sq[i] = x

\* variant: the defence of line 122 left out
FilterToCandidates_Unfiltered(ids, valid) == ids

\* line 122
FilterToCandidates(ids, valid) ==
  LET Valid(rid) == InSeq(rid, valid) IN SelectSeq(ids, Valid)

\* variant: the intersection in the order of previous_candidate_ids
Intersection_PreviousOrder(ids, previous_ids) ==
  LET Named(pid) == InSeq(pid, ids) IN SelectSeq(previous_ids, Named)

\* line 127
Intersection(ids, previous_ids) ==
  LET Prev(rid) == InSeq(rid, previous_ids) IN SelectSeq(ids, Prev)

\* lines 125-133
ApplyPrevious(req, text, ids) ==
  IF TruthyList(req.previous_candidate_ids)
  THEN LET intersection == Intersection(ids, req.previous_candidate_ids[1])
       IN IF intersection # <<>>
          THEN [responseText |-> text, ids |-> intersection]
          ELSE [responseText |-> FallbackText, ids |-> <<>>]
  ELSE [responseText |-> text, ids |-> ids]

----------------------------------------------------------------------------
(* lines 59-104: the prompt.  A rendered f-string is the sequence of its  *)
(* pieces; name, price and address are copied verbatim and left out.      *)

\* getattr(c, name, default) of a pydantic model: every declared field is
\* an attribute, so the default is used only for an undeclared name
GetAttr(c, name, default) == IF name \in DOMAIN c THEN c[name] ELSE default

\* str() of an Optional[str] inside an f-string
Format(o) == IF o = None THEN "None" ELSE o[1]

RECURSIVE Join(_, _)
\* sep.join(parts)
Join(sep, parts) ==
  IF Len(parts) = 0 THEN <<>>
  ELSE IF Len(parts) = 1 THEN <<parts[1]>>
       ELSE <<parts[1], sep>> \o Join(sep, Tail(parts))

\* lines 79-89 (rating in tenths)
Features(c) ==
  (IF TruthyBool(GetAttr(c, "featured", None)) THEN <<"Destacado">> ELSE <<>>)
  \o (IF TruthyBool(GetAttr(c, "serves_alcohol", None)) THEN <<"Sirve alcohol">> ELSE <<>>)
  \o (IF GetAttr(c, "rating", None) # None /\ c.rating[1] # 0 /\ c.rating[1] >= 40
      THEN <<"Rating">> ELSE <<>>)
  \o (IF TruthyStr(GetAttr(c, "delivery_time", None)) THEN <<c.delivery_time[1]>> ELSE <<>>)

\* lines 89-100: the listing entry of one candidate
CandidateEntry(c) ==
  LET features    == Features(c)
      tags        == GetAttr(c, "tags", Some(<<>>))
      tipo_cocina == GetAttr(c, "tipo_cocina", Some("Cocina variada"))
      discount    == GetAttr(c, "discount_info", None)
  IN [id           |-> c.id,
      tipo_cocina  |-> Format(tipo_cocina),
      tags_str     |-> IF TruthyList(tags) THEN Join(" | ", tags[1])
                       ELSE <<"Sin tags especificos">>,
      features_str |-> IF features # <<>> THEN Join(" | ", features)
                       ELSE <<"Estandar">>,
      discount     |-> IF TruthyStr(discount) THEN <<discount[1]>> ELSE <<>>]

NoPrompt == [listing |-> <<>>, closing |-> "none"]

\* line 104
NoCandidatesInstruction == "No se encontraron restaurantes para esta busqueda. Sugiere al usuario que intente con otros terminos o menos filtros. Termina tu respuesta con [RECOMENDACION_IDS: ]."

\* line 102
AnalysisInstruction == "ANALISIS: Basandote en los TAGS y caracteristicas, recomienda los que mejor coincidan."

\* lines 76-104
BuildPrompt(req) ==
  IF TruthyList(req.candidates) /\ Len(req.candidates[1]) > 0
  THEN [listing |-> [i \in 1..Len(req.candidates[1]) |->
                       CandidateEntry(req.candidates[1][i])],
        closing |-> AnalysisInstruction]
  ELSE [listing |-> <<>>,
        closing |-> NoCandidatesInstruction]

----------------------------------------------------------------------------
(* lines 48-138: get_recommendation_from_gemini.  outcome is None when    *)
(* chat.send_message raises and Some(text) when it returns text.          *)

Handle(req, outcome) ==
  IF outcome = None
  THEN [status |-> 503, responseText |-> <<>>, ids |-> <<>>]
  ELSE LET text_response == outcome[1]
           extracted == ExtractIds(text_response)
           cleaned   == CleanText(text_response, re_search(text_response) > 0)
           filtered  == FilterToCandidates(extracted.ids, ValidCandidateIds(req))
           final     == ApplyPrevious(req, cleaned, filtered)
       IN IF extracted.raised
          THEN [status |-> 503, responseText |-> <<>>, ids |-> <<>>]
          ELSE [status |-> 200, responseText |-> final.responseText,
                ids |-> final.ids]

\* one request handled; the model's outcome is drawn from outcomes
Recommend(outcomes) ==
  /\ pc = "received"
  /\ \E outcome \in outcomes :
       \E r \in {Handle(request, outcome)} :
         /\ reply' = outcome
         /\ status' = r.status
         /\ responseText' = r.responseText
         /\ recommendation_ids' = r.ids
  /\ pc' = "done"
  /\ prompt' = BuildPrompt(request)
  /\ calls' = calls + 1
  /\ UNCHANGED request

InitOf(requests) ==
  /\ request \in requests
  /\ pc = "received"
  /\ reply = None
  /\ prompt = NoPrompt
  /\ status = 0
  /\ responseText = <<>>
  /\ recommendation_ids = <<>>
  /\ calls = 0

----------------------------------------------------------------------------
(* Requests and replies *)

Opener == <<"[", KW, ":">>

RECURSIVE Flatten(_)
Flatten(cs) == IF cs = <<>> THEN <<>> ELSE cs[1] \o Flatten(Tail(cs))

\* the texts made of at most n of the given pieces
TextsOver(chunks, n) ==
  { Flatten(f) : f \in UNION { [1..k -> chunks] : k \in 0..n } }

\* an outcome of chat.send_message: an exception or a reply text
Outcomes(texts) == {None} \cup { Some(t) : t \in texts }

\* a candidate whose optional fields are all absent
Cand(id) ==
  [id |-> id, tags |-> Some(<<>>), tipo_cocina |-> None, featured |-> None,
   serves_alcohol |-> None, rating |-> None, delivery_time |-> None,
   discount_info |-> None]

CandsOf(ids) == [i \in 1..Len(ids) |-> Cand(ids[i])]

Req(cands, prev) == [candidates |-> cands, previous_candidate_ids |-> prev]

\* ---- identifiers: extraction and reconciliation
MaxChunksIds == 5

IdChunks == {Opener, <<"]">>, <<",">>, <<"1">>, <<"2">>, <<"x">>}

RequestsIds ==
  { Req(c, p) :
      c \in {None, Some(<<>>), Some(CandsOf(<<1>>)), Some(CandsOf(<<1, 2>>))},
      p \in {None, Some(<<>>), Some(<<1>>), Some(<<1, 2>>), Some(<<3>>)} }

OutcomesIds == Outcomes(TextsOver(IdChunks, MaxChunksIds))

InitIds == InitOf(RequestsIds)

NextIds == Recommend(OutcomesIds)

SpecIds == InitIds /\ [][NextIds]_vars

\* ---- payload tokens: malformed and non-decimal digits
MaxChunksParse == 5

ParseChunks == {Opener, <<"]">>, <<",">>, <<" ">>, <<"1">>, <<"a">>, <<SuperTwo>>}

RequestsParse ==
  { Req(c, p) :
      c \in {None, Some(<<>>), Some(CandsOf(<<1>>))},
      p \in {None, Some(<<1>>)} }

OutcomesParse == Outcomes(TextsOver(ParseChunks, MaxChunksParse))

InitParse == InitOf(RequestsParse)

NextParse == Recommend(OutcomesParse)

SpecParse == InitParse /\ [][NextParse]_vars

\* ---- marker stripping
MaxChunksStrip == 5

StripChunks == {Opener, <<"[">>, <<KW>>, <<":">>, <<"]">>, <<" ">>, <<"x">>}

RequestsStrip ==
  { Req(c, p) :
      c \in {None, Some(CandsOf(<<1>>))},
      p \in {None, Some(<<>>), Some(<<1>>)} }

OutcomesStrip == Outcomes(TextsOver(StripChunks, MaxChunksStrip))

InitStrip == InitOf(RequestsStrip)

NextStrip == Recommend(OutcomesStrip)

SpecStrip == InitStrip /\ [][NextStrip]_vars

\* ---- nested marker fragments
MaxChunksNested == 6

NestedChunks == {Opener, <<"[">>, <<KW>>, <<":">>, <<"]">>}

RequestsNested == { Req(Some(CandsOf(<<1>>)), p) : p \in {None, Some(<<1>>)} }

OutcomesNested == Outcomes(TextsOver(NestedChunks, MaxChunksNested))

InitNested == InitOf(RequestsNested)

NextNested == Recommend(OutcomesNested)

SpecNested == InitNested /\ [][NextNested]_vars

\* ---- several markers, whitespace around the colon
MaxChunksMarkers == 5

MarkerChunks == {Opener, <<"[", KW>>, <<":">>, <<" ">>, <<"1">>, <<"2">>, <<"]">>}

RequestsMarkers ==
  { Req(Some(CandsOf(ids)), None) : ids \in {<<1>>, <<1, 2>>, <<2, 1>>} }

OutcomesMarkers == Outcomes(TextsOver(MarkerChunks, MaxChunksMarkers))

InitMarkers == InitOf(RequestsMarkers)

NextMarkers == Recommend(OutcomesMarkers)

SpecMarkers == InitMarkers /\ [][NextMarkers]_vars

\* ---- the prompt listing
MaxCandidates == 1

CandidateVariants ==
  [id : {1, 2},
   tags : {None, Some(<<>>), Some(<<"romantico">>), Some(<<"romantico", "terraza">>)},
   tipo_cocina : {None, Some("Mexicana")},
   featured : {None, Some(TRUE)},
   serves_alcohol : {None, Some(FALSE)},
   rating : {None, Some(35), Some(45)},
   delivery_time : {None},
   discount_info : {None, Some("2x1")}]

RequestsPrompt ==
  { Req(c, None) :
      c \in {None} \cup
            { Some(l) : l \in UNION { [1..k -> CandidateVariants] : k \in 0..MaxCandidates } } }

OutcomesPrompt == Outcomes({ <<"x">>, <<"x", " ">> \o Opener \o <<"1", "]">> })

InitPrompt == InitOf(RequestsPrompt)

NextPrompt == Recommend(OutcomesPrompt)

SpecPrompt == InitPrompt /\ [][NextPrompt]_vars

----------------------------------------------------------------------------
(* Properties *)

Done == pc = "done"

Returned == Done /\ status = 200

ReplyText == reply[1]

Contains(t, ch) == \E i \in 1..Len(t) : t[i] = ch

\* the positions of a text where a well-formed marker starts
MarkerStarts(t) ==
  { i \in 1..Len(t) :
      /\ i + 3 <= Len(t)
      /\ t[i] = "[" /\ t[i + 1] = KW /\ t[i + 2] = ":"
      /\ \E j \in (i + 3)..Len(t) : t[j] = "]" }

HasMarker(t) == MarkerStarts(t) # {}

FirstMarker(t) == CHOOSE i \in MarkerStarts(t) : \A k \in MarkerStarts(t) : i <= k

\* the closing bracket of the marker whose payload starts at position a
ClosingOf(t, a) ==
  CHOOSE j \in a..Len(t) : t[j] = "]" /\ \A k \in a..(j - 1) : t[k] # "]"

CandidateIdSet ==
  IF request.candidates = None THEN {}
  ELSE { request.candidates[1][j].id : j \in 1..Len(request.candidates[1]) }

\* C1: every identifier of a returned recommendation_ids is the id of a
\* candidate of the request (none when candidates is absent or empty).
C1_IdsAreCandidates ==
  Returned =>
    \A i \in 1..Len(recommendation_ids) : recommendation_ids[i] \in CandidateIdSet

\* the reply names 2 and 1, only 1 is a candidate
C1_Witness ==
  /\ Returned
  /\ CandidateIdSet = {1}
  /\ ReplyText = Opener \o <<"2", ",", "1", "]">>
  /\ recommendation_ids = <<1>>

\* the identifiers of the reply after the filter to the candidates
FilteredOfReply ==
  FilterToCandidates(ExtractIds(ReplyText).ids, ValidCandidateIds(request))

\* C2: with a non-empty previous_candidate_ids P and F the filtered list:
\* some element of F in P gives the elements of F that are in P, in F's
\* order, with the marker-stripped text; none gives [] and the fallback
\* sentence; without P, F is returned unchanged.
C2_PreviousIntersection ==
  Returned =>
    LET F == FilteredOfReply
        P == request.previous_candidate_ids
        InP(x) == \E k \in 1..Len(P[1]) : P[1][k] = x
    IN IF P # None /\ P[1] # <<>>
       THEN IF \E i \in 1..Len(F) : InP(F[i])
            THEN /\ recommendation_ids = SelectSeq(F, InP)
                 /\ responseText = Strip(re_sub(ReplyText))
            ELSE /\ recommendation_ids = <<>>
                 /\ responseText = FallbackText
       ELSE recommendation_ids = F

\* F = [2, 1] and P = [1, 2]: the result keeps F's order
C2_Witness ==
  /\ Returned
  /\ request.previous_candidate_ids = Some(<<1, 2>>)
  /\ ReplyText = Opener \o <<"2", ",", "1", "]">>
  /\ recommendation_ids = <<2, 1>>

ExactlyOneMarker(t) == Cardinality(MarkerStarts(t)) = 1

BeforeMarker(t) == SubSeq(t, 1, FirstMarker(t) - 1)

AfterMarker(t) == SubSeq(t, ClosingOf(t, FirstMarker(t) + 3) + 1, Len(t))

LStrip(t) == SubSeq(t, SkipSpace(t, 1), Len(t))

RStrip(t) == SubSeq(t, 1, SkipSpaceBack(t, Len(t)))

C3_Case ==
  /\ Returned
  /\ request.previous_candidate_ids = None
  /\ ExactlyOneMarker(ReplyText)

C5_Case == Done /\ reply # None /\ ~HasMarker(ReplyText)

\* C5 as stated: a reply without a marker gives recommendation_ids = [] and
\* the reply text unchanged, with or without previous_candidate_ids.
C5_Original ==
  C5_Case =>
    /\ status = 200
    /\ recommendation_ids = <<>>
    /\ responseText = ReplyText

\* C5 amended: a reply without a marker gives a result with
\* recommendation_ids = []; the text is the reply unchanged when
\* previous_candidate_ids is absent or empty and the fallback sentence
\* when it is non-empty.
C5_NoMarker ==
  C5_Case =>
    /\ status = 200
    /\ recommendation_ids = <<>>
    /\ responseText =
         IF request.previous_candidate_ids \in {None, Some(<<>>)}
         THEN ReplyText ELSE FallbackText

\* an unclosed marker with whitespace around it is passed through untouched
C5_Witness ==
  /\ C5_Case
  /\ request.previous_candidate_ids = None
  /\ ReplyText = <<" ">> \o Opener \o <<" ">>
  /\ responseText = ReplyText

\* the tokens of a payload that are non-negative decimal integers
DecimalToken(tok) ==
  Strip(tok) # <<>> /\ \A i \in 1..Len(Strip(tok)) : Strip(tok)[i] \in DecimalChars

IntegersOf(payload) ==
  LET kept == SelectSeq(Split(payload), DecimalToken)
  IN [i \in 1..Len(kept) |-> IntOf(Strip(kept[i]))]

PayloadOfFirstMarker(t) ==
  SubSeq(t, FirstMarker(t) + 3, ClosingOf(t, FirstMarker(t) + 3) - 1)

\* C4: the extraction never fails the request: tokens that are not
\* non-negative integers are dropped, the others are converted in order.
C4_ExtractionNeverFails ==
  (Done /\ reply # None) =>
    /\ status = 200
    /\ (request.previous_candidate_ids = None /\ HasMarker(ReplyText)) =>
         recommendation_ids =
           FilterToCandidates(IntegersOf(PayloadOfFirstMarker(ReplyText)),
                              ValidCandidateIds(request))

\* C6: the model is called exactly once; a failed call ends in one 503 and
\* a successful call ends in a result object.
C6_OneCallOneOutcome ==
  Done =>
    /\ calls = 1
    /\ (reply = None => status = 503)
    /\ (reply # None => status = 200)

\* C7: the response text of a result holds no marker.
C7_NoMarkerInResponse == Returned => ~HasMarker(responseText)

\* the reply ends with an empty marker and holds no other marker
EndsWithEmptyMarker(t) ==
  /\ ExactlyOneMarker(t)
  /\ ClosingOf(t, FirstMarker(t) + 3) = Len(t)
  /\ Strip(PayloadOfFirstMarker(t)) = <<>>

\* C8: without candidates the prompt carries the no-results instruction and
\* no listing, every successful model call gives a result with
\* recommendation_ids = [], and a reply ending with an empty marker gives
\* the text without the marker.
C8_EmptyCandidates ==
  (Done /\ request.candidates \in {None, Some(<<>>)}) =>
    /\ prompt.listing = <<>>
    /\ prompt.closing = NoCandidatesInstruction
    /\ reply # None => (status = 200 /\ recommendation_ids = <<>>)
    /\ (reply # None /\ request.previous_candidate_ids = None
          /\ EndsWithEmptyMarker(ReplyText))
         => responseText = Strip(BeforeMarker(ReplyText))

\* the positions where a marker with whitespace on both sides of the colon starts
LooseColon(t, i) ==
  CHOOSE c \in (i + 2)..Len(t) : ~IsSpace(t[c])

LooseStarts(t) ==
  { i \in 1..Len(t) :
      /\ i + 3 <= Len(t)
      /\ t[i] = "[" /\ t[i + 1] = KW
      /\ \E c \in (i + 2)..Len(t) : ~IsSpace(t[c])
      /\ t[LooseColon(t, i)] = ":"
      /\ \A k \in (i + 2)..(LooseColon(t, i) - 1) : IsSpace(t[k])
      /\ \E j \in (LooseColon(t, i) + 1)..Len(t) : t[j] = "]" }

FirstLoose(t) == CHOOSE i \in LooseStarts(t) : \A k \in LooseStarts(t) : i <= k

PayloadOfFirstLoose(t) ==
  LET a == LooseColon(t, FirstLoose(t)) + 1
  IN SubSeq(t, a, ClosingOf(t, a) - 1)

\* C9 as stated: the marker is recognised with whitespace on either side of
\* the colon, and the identifiers are those of the first marker.
C9_Original ==
  Returned =>
    recommendation_ids =
      IF LooseStarts(ReplyText) = {} THEN <<>>
      ELSE FilterToCandidates(IntegersOf(PayloadOfFirstLoose(ReplyText)),
                              ValidCandidateIds(request))

\* C9 amended: the marker is recognised with whitespace after the colon and
\* around the payload tokens, not between the keyword and the colon, and
\* the identifiers are those of the first marker only.
C9_FirstMarkerWins ==
  Returned =>
    recommendation_ids =
      IF ~HasMarker(ReplyText) THEN <<>>
      ELSE FilterToCandidates(IntegersOf(PayloadOfFirstMarker(ReplyText)),
                              ValidCandidateIds(request))

\* an empty first marker and a second one that names candidate 1
C9_Witness ==
  /\ Returned
  /\ ReplyText = Opener \o <<"]">> \o Opener \o <<"1", "]">>
  /\ 1 \in CandidateIdSet
  /\ recommendation_ids = <<>>

\* C10: the listing shows the cuisine text or "Cocina variada", the joined
\* tags or the no-tags text, and never a None.
C10_ListingDefaults ==
  (Done /\ request.candidates # None) =>
    \A i \in 1..Len(request.candidates[1]) :
      LET c == request.candidates[1][i]
          e == prompt.listing[i]
      IN /\ e.tipo_cocina =
              (IF c.tipo_cocina = None THEN "Cocina variada" ELSE c.tipo_cocina[1])
         /\ e.tags_str =
              (IF c.tags \in {None, Some(<<>>)} THEN <<"Sin tags especificos">>
               ELSE Join(" | ", c.tags[1]))
         /\ e.tipo_cocina # "None"

====
